---------------------------- MODULE Spec2Model ----------------------------
(***************************************************************************)
(* Model of the stabiliser cost simulator (src/src/StabiliserSimulator.tsx).*)
(*                                                                         *)
(* The engine computes with JavaScript numbers, i.e. binary floating point *)
(* with round-to-nearest-even after every operation.  A number is modelled *)
(* as a record [m, e] standing for m * 2^e, kept canonical (m odd, or      *)
(* m = 0 and e = 0) so that record equality is numeric equality, and every *)
(* arithmetic operator rounds its exact result to Precision significant    *)
(* bits.  IEEE binary64 has 53 significant bits; the model keeps the same  *)
(* arithmetic with a narrower significand.  Overflow to Infinity and NaN   *)
(* are outside the model: all modelled inputs are finite and small.        *)
(***************************************************************************)
EXTENDS Integers, Sequences, FiniteSets, TLC

\* Width of the significand of the modelled floating-point format.
Precision == 17

\* Longest material list passed to computeCostsWithInventory.
MaxMaterials == 3

----------------------------------------------------------------------------
(* Floating-point arithmetic (the semantics of *, +, -, /, <, Math.max).   *)

AbsInt(n) == IF n < 0 THEN -n ELSE n

SignInt(n) == IF n < 0 THEN -1 ELSE 1

RECURSIVE BitLen(_)
BitLen(n) == IF n = 0 THEN 0 ELSE 1 + BitLen(n \div 2)

RECURSIVE Canon(_, _)
Canon(m, e) ==
  IF m = 0 THEN [m |-> 0, e |-> 0]
  ELSE IF m % 2 = 0 THEN Canon(m \div 2, e + 1)
  ELSE [m |-> m, e |-> e]

\* m * 2^e rounded to Precision significant bits, ties to even.
RoundInt(m, e) ==
  LET a == AbsInt(m)
      n == BitLen(a)
  IN  IF n <= Precision THEN Canon(m, e)
      ELSE LET k    == n - Precision
               q    == a \div (2 ^ k)
               r    == a % (2 ^ k)
               half == 2 ^ (k - 1)
               up   == r > half \/ (r = half /\ q % 2 = 1)
           IN  Canon(SignInt(m) * (IF up THEN q + 1 ELSE q), e + k)

Zero == [m |-> 0, e |-> 0]

One == [m |-> 1, e |-> 0]

FromInt(n) == RoundInt(n, 0)

FNeg(a) == [m |-> -a.m, e |-> a.e]

FAbs(a) == [m |-> AbsInt(a.m), e |-> a.e]

\* Position just above the leading bit of a nonzero number.
TopBit(a) == a.e + BitLen(AbsInt(a.m))

\* a + b, correctly rounded.  The operand with the far smaller exponent is
\* truncated to a working exponent and remembered as a sticky bit.
FAdd(a, b) ==
  IF a.m = 0 THEN b
  ELSE IF b.m = 0 THEN a
  ELSE LET tmax == IF TopBit(a) > TopBit(b) THEN TopBit(a) ELSE TopBit(b)
           emin == IF a.e < b.e THEN a.e ELSE b.e
           ew   == IF emin > tmax - 27 THEN emin ELSE tmax - 27
           Sh(x) == IF x.e >= ew THEN x.m * (2 ^ (x.e - ew))
                    ELSE x.m \div (2 ^ (ew - x.e))
           sticky == a.e < ew \/ b.e < ew
           s    == Sh(a) + Sh(b)
       IN  IF sticky THEN RoundInt(2 * s + 1, ew - 1) ELSE RoundInt(s, ew)

FSub(a, b) == FAdd(a, FNeg(b))

\* a * b, correctly rounded.  A product too wide for one machine integer is
\* formed in two limbs and its low limb kept as a sticky bit.
FMul(a, b) ==
  LET s == SignInt(a.m) * SignInt(b.m)
      x == AbsInt(a.m)
      y == AbsInt(b.m)
  IN  IF x = 0 \/ y = 0 THEN Zero
      ELSE IF BitLen(x) + BitLen(y) <= 30 THEN RoundInt(s * x * y, a.e + b.e)
      ELSE LET yh == y \div 512
               yl == y % 512
               lo == x * yl
               q  == x * yh + (lo \div 512)
               rl == lo % 512
           IN  RoundInt(s * (2 * q + (IF rl > 0 THEN 1 ELSE 0)), a.e + b.e + 8)

\* Long division: quotient bits are produced until the quotient has more
\* than Precision + 1 bits or the remainder vanishes.
RECURSIVE DivLoop(_, _, _, _)
DivLoop(q, r, d, k) ==
  IF r = 0 \/ q >= 2 ^ (Precision + 1) THEN [q |-> q, r |-> r, k |-> k]
  ELSE IF 2 * r >= d THEN DivLoop(2 * q + 1, 2 * r - d, d, k + 1)
  ELSE DivLoop(2 * q, 2 * r, d, k + 1)

\* a / b for b # 0, correctly rounded.
FDiv(a, b) ==
  IF a.m = 0 THEN Zero
  ELSE LET s == SignInt(a.m) * SignInt(b.m)
           n == AbsInt(a.m)
           d == AbsInt(b.m)
           w == DivLoop(n \div d, n % d, d, 0)
       IN  RoundInt(s * (2 * w.q + (IF w.r > 0 THEN 1 ELSE 0)), a.e - b.e - w.k - 1)

FLt(a, b) == FSub(a, b).m < 0

FLe(a, b) == ~FLt(b, a)

FGt(a, b) == FLt(b, a)

FGe(a, b) == ~FLt(a, b)

\* Math.max
FMax(a, b) == IF FLt(a, b) THEN b ELSE a

\* The number a decimal literal n/d denotes (n, d small integers).
Dec(n, d) == FDiv(FromInt(n), FromInt(d))

----------------------------------------------------------------------------
(* Static catalog.  A material is [id, newPrice, oldCost, onHand, bomQty];  *)
(* its name and unit of measure are copied through and never computed with. *)

Material(id, newPrice, oldCost, onHand, bomQty) ==
  [id |-> id, newPrice |-> newPrice, oldCost |-> oldCost,
   onHand |-> onHand, bomQty |-> bomQty]

PRODUCTS ==
  [P100 |-> [listPrice |-> FromInt(6500), targetMargin |-> Dec(25, 100)],
   P200 |-> [listPrice |-> FromInt(9000), targetMargin |-> Dec(25, 100)],
   P300 |-> [listPrice |-> FromInt(3500), targetMargin |-> Dec(25, 100)]]

\* An optional argument: absent (undefined) or a number.
Undefined == [present |-> FALSE, v |-> Zero]

Some(x) == [present |-> TRUE, v |-> x]

----------------------------------------------------------------------------
(* computeCostsWithInventory, statement by statement.                      *)

grossReq(m, forecastUnits) == FMul(m.bomQty, forecastUnits)

\* Variant: the requirement is not clamped at zero.
procureQty_noClamp(gross, onHand) == FSub(gross, onHand)

procureQty(gross, onHand) == FMax(Zero, FSub(gross, onHand))

spend(procure, newPrice) == FMul(procure, newPrice)

\* Variant: the stock on hand is left out of the end quantity.
endQty_procureOnly(onHand, procure) == procure

endQty(onHand, procure) == FAdd(onHand, procure)

\* Variant: the two prices are added, not averaged by quantity.
avgCost_unweighted(m, procure, endq) ==
  IF FGt(endq, Zero) THEN FAdd(m.oldCost, m.newPrice) ELSE m.newPrice

\* Variant: with nothing in stock the old cost is the fallback.
avgCost_fallbackOld(m, procure, endq) ==
  IF FGt(endq, Zero)
  THEN FDiv(FAdd(FMul(m.onHand, m.oldCost), FMul(procure, m.newPrice)), endq)
  ELSE m.oldCost

avgCost(m, procure, endq) ==
  IF FGt(endq, Zero)
  THEN FDiv(FAdd(FMul(m.onHand, m.oldCost), FMul(procure, m.newPrice)), endq)
  ELSE m.newPrice

\* The callback of materials.map: one plan entry from one material.  Each
\* const of the callback is computed once and handed on.
entryOf(m, g, p, q) ==
  [id |-> m.id, grossReq |-> g, onHand |-> m.onHand, procureQty |-> p,
   oldCost |-> m.oldCost, newPrice |-> m.newPrice,
   spend |-> spend(p, m.newPrice), endQty |-> q,
   avgCost |-> avgCost(m, p, q), bomQty |-> m.bomQty]

entryFromProcure(m, g, p) == entryOf(m, g, p, endQty(m.onHand, p))

entryFromGross(m, g) == entryFromProcure(m, g, procureQty(g, m.onHand))

planEntry(m, forecastUnits) == entryFromGross(m, grossReq(m, forecastUnits))

\* Variant: the plan is built in reverse order.
procurementPlan_reversed(materials, forecastUnits) ==
  [i \in 1..Len(materials) |->
     planEntry(materials[Len(materials) + 1 - i], forecastUnits)]

procurementPlan(materials, forecastUnits) ==
  [i \in 1..Len(materials) |-> planEntry(materials[i], forecastUnits)]

\* Variant: materials are costed at the new price.
RECURSIVE reduceCost_newPrice(_, _)
reduceCost_newPrice(plan, n) ==
  IF n = 0 THEN Zero
  ELSE FAdd(reduceCost_newPrice(plan, n - 1), FMul(plan[n].bomQty, plan[n].newPrice))

\* procurementPlan.reduce((sum, p) => sum + p.bomQty * p.avgCost, 0)
RECURSIVE reduceCost(_, _)
reduceCost(plan, n) ==
  IF n = 0 THEN Zero
  ELSE FAdd(reduceCost(plan, n - 1), FMul(plan[n].bomQty, plan[n].avgCost))

directMaterialCost(plan) == reduceCost(plan, Len(plan))

labor(dmc, laborPct) == FMul(dmc, laborPct)

energy(dmc, energyPct) == FMul(dmc, energyPct)

warranty(listPrice, warrantyPct) == FMul(listPrice, warrantyPct)

\* Variant: freight is left out of the total.
totalCost_noFreight(dmc, lab, en, freight, war) ==
  FAdd(FAdd(FAdd(dmc, lab), en), war)

totalCost(dmc, lab, en, freight, war) ==
  FAdd(FAdd(FAdd(FAdd(dmc, lab), en), freight), war)

\* Variant: the operands of the margin are swapped.
marginInr_swapped(listPrice, total) == FSub(total, listPrice)

marginInr(listPrice, total) == FSub(listPrice, total)

\* Variant: without a positive list price the margin amount is returned.
marginPct_elseMargin(listPrice, margin) ==
  IF FGt(listPrice, Zero) THEN FDiv(margin, listPrice) ELSE margin

marginPct(listPrice, margin) ==
  IF FGt(listPrice, Zero) THEN FDiv(margin, listPrice) ELSE Zero

\* Variant: the target margin is applied as a markup on cost.
recommendedSP_markup(total, targetMargin) == FMul(total, FAdd(One, targetMargin))

\* Variant: the cost is multiplied by (1 - targetMargin), not divided.
recommendedSP_times(total, targetMargin) ==
  IF FGt(FSub(One, targetMargin), Zero)
  THEN FMul(total, FSub(One, targetMargin))
  ELSE total

recommendedSP(total, targetMargin) ==
  IF FGt(FSub(One, targetMargin), Zero)
  THEN FDiv(total, FSub(One, targetMargin))
  ELSE total

\* PRODUCTS[sku] is undefined for an unknown sku; reading a property of it
\* throws, and `a ?? b` evaluates b only when a is absent.
productKnown(sku) == sku \in DOMAIN PRODUCTS

throwsTypeError(a) ==
  \/ ~a.listPriceOverride.present /\ ~productKnown(a.sku)
  \/ ~a.targetMarginOverride.present /\ ~productKnown(a.sku)

NoResult ==
  [procurementPlan |-> <<>>, directMaterialCost |-> Zero, labor |-> Zero,
   energy |-> Zero, freight |-> Zero, warranty |-> Zero, totalCost |-> Zero,
   listPrice |-> Zero, marginInr |-> Zero, marginPct |-> Zero,
   targetMargin |-> Zero, recommendedSP |-> Zero]

\* The body after the product lookup; each const is computed once and
\* handed on to the statements after it.
resultOf(a, lp, tm, plan, dmc, lab, en, war, tot, mar) ==
  [procurementPlan |-> plan, directMaterialCost |-> dmc, labor |-> lab,
   energy |-> en, freight |-> a.freight, warranty |-> war,
   totalCost |-> tot, listPrice |-> lp, marginInr |-> mar,
   marginPct |-> marginPct(lp, mar), targetMargin |-> tm,
   recommendedSP |-> recommendedSP(tot, tm)]

fromTotal(a, lp, tm, plan, dmc, lab, en, war, tot) ==
  resultOf(a, lp, tm, plan, dmc, lab, en, war, tot, marginInr(lp, tot))

fromOverheads(a, lp, tm, plan, dmc, lab, en, war) ==
  fromTotal(a, lp, tm, plan, dmc, lab, en, war, totalCost(dmc, lab, en, a.freight, war))

fromDirectMaterial(a, lp, tm, plan, dmc) ==
  fromOverheads(a, lp, tm, plan, dmc, labor(dmc, a.laborPct),
                energy(dmc, a.energyPct), warranty(lp, a.warrantyPct))

fromPlan(a, lp, tm, plan) ==
  fromDirectMaterial(a, lp, tm, plan, directMaterialCost(plan))

computeResult(a) ==
  fromPlan(a,
           IF a.listPriceOverride.present THEN a.listPriceOverride.v
           ELSE PRODUCTS[a.sku].listPrice,
           IF a.targetMarginOverride.present THEN a.targetMarginOverride.v
           ELSE PRODUCTS[a.sku].targetMargin,
           procurementPlan(a.materials, a.forecastUnits))

computeCostsWithInventory(a) ==
  IF throwsTypeError(a) THEN [status |-> "error", result |-> NoResult]
  ELSE [status |-> "ok", result |-> computeResult(a)]

----------------------------------------------------------------------------
(* Inputs of the calls that are checked.                                   *)

Args(sku, fu, mats, lpo, tmo, lab, en, fr, war) ==
  [sku |-> sku, forecastUnits |-> fu, materials |-> mats,
   listPriceOverride |-> lpo, targetMarginOverride |-> tmo,
   laborPct |-> lab, energyPct |-> en, freight |-> fr, warrantyPct |-> war]

Skus == {"P100", "P200", "P300", "P999"}

\* The first rows of MATERIALS and a row with no stock.
Copper == Material("M_COPPER", FromInt(880), FromInt(800), FromInt(1000), Dec(25, 10))

Alum == Material("M_ALUM", FromInt(260), FromInt(255), FromInt(800), Zero)

SteelLam == Material("M_STEEL_LAM", FromInt(155), FromInt(150), FromInt(2000), FromInt(3))

NoStock == Material("M_NEW", Dec(1, 10), FromInt(7), Zero, FromInt(3))

CatalogRows == {Copper, Alum, SteelLam, NoStock}

\* Every field combination a user can type into one material row.
BomQtys == {FromInt(-1), Zero, Dec(25, 10), FromInt(3)}

OnHands == {FromInt(-5), Zero, FromInt(1000), FromInt(30000)}

Forecasts == {FromInt(-1), Zero, One, FromInt(10000)}

NewPrices == {Zero, Dec(1, 10), FromInt(880)}

OldCosts == {Zero, FromInt(800)}

TypedRows ==
  {Material("M_X", np, oc, oh, bq) :
     np \in NewPrices, oc \in OldCosts, oh \in OnHands, bq \in BomQtys}

RECURSIVE SeqsUpTo(_, _)
SeqsUpTo(S, n) ==
  IF n = 0 THEN {<<>>}
  ELSE LET shorter == SeqsUpTo(S, n - 1)
       IN  shorter \cup {Append(s, x) : s \in {t \in shorter : Len(t) = n - 1}, x \in S}

ListPrices == {Undefined, Some(Zero), Some(FromInt(6500)), Some(Dec(1001, 10)), Some(FromInt(-10))}

TargetMargins ==
  {Undefined, Some(Zero), Some(Dec(25, 100)), Some(Dec(1, 10)), Some(One), Some(Dec(15, 10))}

\* One typed material row, default overheads.
RowCalls ==
  {Args("P100", fu, <<m>>, Undefined, Undefined, Dec(8, 100), Dec(4, 100), FromInt(60), Dec(1, 100)) :
     fu \in Forecasts, m \in TypedRows}

\* Material lists of every length up to MaxMaterials.
ListCalls ==
  {Args("P100", fu, ms, Undefined, Undefined, Dec(8, 100), Dec(4, 100), FromInt(60), Dec(1, 100)) :
     fu \in {Zero, FromInt(10000)}, ms \in SeqsUpTo(CatalogRows, MaxMaterials)}

\* Every product id, override and overhead over a short material list.
MarginCalls ==
  {Args(sku, FromInt(10000), ms, lpo, tmo, lab, en, fr, war) :
     sku \in Skus, ms \in {<<>>, <<Copper>>}, lpo \in ListPrices, tmo \in TargetMargins,
     lab \in {Zero, Dec(8, 100)}, en \in {Zero, Dec(4, 100)},
     fr \in {Zero, FromInt(60), FromInt(5000)}, war \in {Zero, Dec(1, 100)}}

\* The numeric boundaries of a known product, alone and together: a row with
\* no stock and no demand, a list price of zero, a target margin of 1 or more.
BoundaryCalls ==
  {Args(sku, fu, ms, lpo, tmo, Dec(8, 100), Dec(4, 100), FromInt(60), Dec(1, 100)) :
     sku \in {"P100", "P200", "P300"}, fu \in {Zero, FromInt(10000)},
     ms \in {<<NoStock>>, <<NoStock, Copper>>},
     lpo \in {Undefined, Some(Zero)},
     tmo \in {Undefined, Some(One), Some(Dec(15, 10))}}

\* Fractional stock and quantities, with demand below and above the stock.
FractionalRows ==
  {Material("M_X", np, oc, oh, bq) :
     np \in {Dec(1, 10), FromInt(880)}, oc \in {Dec(1, 10), FromInt(255)},
     oh \in {Dec(7, 10), FromInt(3), Dec(859, 10)},
     bq \in {Zero, Dec(4, 10), One}}

FractionalCalls ==
  {Args("P100", fu, <<m>>, Undefined, Undefined, Dec(8, 100), Dec(4, 100), FromInt(60), Dec(1, 100)) :
     fu \in {Zero, One, FromInt(857)}, m \in FractionalRows}

Calls == RowCalls \cup ListCalls \cup MarginCalls \cup BoundaryCalls \cup FractionalCalls

----------------------------------------------------------------------------
(* One call of computeCostsWithInventory on a drawn input.  The variables  *)
(* of the component are declared here and rest during the call.           *)

\* The eleven rows of MATERIALS.
MATERIALS ==
  <<Copper, Alum, SteelLam,
    Material("M_ABS", FromInt(180), FromInt(178), FromInt(500), Dec(12, 10)),
    Material("M_PCBA", FromInt(360), FromInt(350), FromInt(500), One),
    Material("M_DISPLAY", FromInt(125), FromInt(120), FromInt(300), One),
    Material("M_SOLDER", FromInt(1250), FromInt(1200), FromInt(50), Dec(5, 100)),
    Material("M_SWITCH", FromInt(52), FromInt(50), FromInt(1000), One),
    Material("M_PACK", FromInt(72), FromInt(70), FromInt(800), One),
    Material("M_RELAY", FromInt(115), FromInt(110), FromInt(400), FromInt(2)),
    Material("M_MC", FromInt(95), FromInt(90), FromInt(600), One)>>

\* The module-level constants as the objects they are in memory.
Catalog == [materials |-> MATERIALS, products |-> PRODUCTS]

VARIABLES
  args,            \* the argument object of the call / the nine inputs on screen
  status,          \* "pending", "ok" or "error"
  result,          \* the returned result / the memoised result of the last render
  scenarios,       \* the scenario store
  renderedLength,  \* scenarios.length as the last render's closures hold it
  catalog,         \* contents of the MATERIALS and PRODUCTS objects
  aliased,         \* rows of the materials state that are catalog objects
  events,          \* events handled so far
  cleared          \* clearScenarios has emptied a store that held entries

vars == <<args, status, result, scenarios, renderedLength, catalog, aliased, events, cleared>>

uiVars == <<scenarios, renderedLength, catalog, aliased, events, cleared>>

Init ==
  /\ args \in Calls
  /\ status = "pending"
  /\ result = NoResult
  /\ scenarios = <<>>
  /\ renderedLength = 0
  /\ catalog = Catalog
  /\ aliased = {}
  /\ events = 0
  /\ cleared = FALSE

Compute ==
  /\ status = "pending"
  /\ LET out == computeCostsWithInventory(args)
     IN  /\ status' = out.status
         /\ result' = out.result
  /\ UNCHANGED args
  /\ UNCHANGED uiVars

Next == Compute

Spec == Init /\ [][Next]_vars

----------------------------------------------------------------------------
(* Properties of the procurement plan.                                     *)

Returned == status = "ok"

Rows == 1..Len(args.materials)

IsNeg(x) == x.m < 0

IsPos(x) == x.m > 0

\* C1: every plan entry has procureQty = max(0, bomQty * forecastUnits -
\* onHand), for negative and zero inputs too, and so procureQty >= 0.
C1_ProcureQtyClamped ==
  Returned =>
    \A i \in Rows :
      LET m == args.materials[i]
          p == result.procurementPlan[i]
      IN  /\ p.procureQty = FMax(Zero, FSub(FMul(m.bomQty, args.forecastUnits), m.onHand))
          /\ ~IsNeg(p.procureQty)

\* A negative requirement against positive stock: the clamp acts.
C1_Witness ==
  /\ Returned
  /\ \E i \in Rows :
       /\ IsNeg(FMul(args.materials[i].bomQty, args.forecastUnits))
       /\ IsPos(args.materials[i].onHand)
       /\ result.procurementPlan[i].procureQty = Zero

\* C2: avgCost is the weighted average when endQty > 0 and newPrice
\* otherwise, and equals newPrice exactly whenever onHand = 0.
C2_AvgCostExact ==
  Returned =>
    \A i \in Rows :
      LET m == args.materials[i]
          p == result.procurementPlan[i]
      IN  /\ IsPos(p.endQty) =>
               p.avgCost = FDiv(FAdd(FMul(m.onHand, m.oldCost),
                                     FMul(p.procureQty, m.newPrice)), p.endQty)
          /\ ~IsPos(p.endQty) => p.avgCost = m.newPrice
          /\ m.onHand = Zero => p.avgCost = m.newPrice

\* C3: one plan entry per material, in input order with the same id, with
\* grossReq = bomQty * forecastUnits, spend = procureQty * newPrice and
\* endQty = onHand + procureQty; the copper row at 10000 units gives
\* 25000, 24000, 21120000, 25000 and 876.8.
C3_PlanEntries ==
  Returned =>
    /\ Len(result.procurementPlan) = Len(args.materials)
    /\ \A i \in Rows :
         LET m == args.materials[i]
             p == result.procurementPlan[i]
         IN  /\ p.id = m.id
             /\ p.grossReq = FMul(m.bomQty, args.forecastUnits)
             /\ p.spend = FMul(p.procureQty, m.newPrice)
             /\ p.endQty = FAdd(m.onHand, p.procureQty)
             /\ (m = Copper /\ args.forecastUnits = FromInt(10000)) =>
                  /\ p.grossReq = FromInt(25000)
                  /\ p.procureQty = FromInt(24000)
                  /\ p.spend = FromInt(21120000)
                  /\ p.endQty = FromInt(25000)
                  /\ p.avgCost = Dec(8768, 10)

\* The copper row second in a list of three different materials.
C3_Witness ==
  /\ Returned
  /\ args.forecastUnits = FromInt(10000)
  /\ args.materials = <<SteelLam, Copper, NoStock>>
  /\ result.procurementPlan[2].id = "M_COPPER"
  /\ result.procurementPlan[2].avgCost = Dec(8768, 10)

RECURSIVE SumBomTimesAvg(_, _)
SumBomTimesAvg(plan, n) ==
  IF n = 0 THEN Zero
  ELSE FAdd(SumBomTimesAvg(plan, n - 1), FMul(plan[n].bomQty, plan[n].avgCost))

UsedEntries(plan) == SelectSeq(plan, LAMBDA p : p.bomQty # Zero)

\* C4: directMaterialCost is the sum over the plan of bomQty * avgCost (the
\* moving-average cost); it is 0 for no materials, and entries with
\* bomQty = 0 contribute nothing.
C4_DirectMaterialCost ==
  Returned =>
    LET plan == result.procurementPlan
    IN  /\ result.directMaterialCost = SumBomTimesAvg(plan, Len(plan))
        /\ result.directMaterialCost =
             SumBomTimesAvg(UsedEntries(plan), Len(UsedEntries(plan)))
        /\ args.materials = <<>> => result.directMaterialCost = Zero

\* A list with an unused material, and a used one whose average cost is
\* neither its new price nor its old cost.
C4_Witness ==
  /\ Returned
  /\ \E i \in Rows : args.materials[i].bomQty = Zero
  /\ \E i \in Rows :
       LET p == result.procurementPlan[i]
       IN  /\ IsPos(p.bomQty)
           /\ p.avgCost # p.newPrice
           /\ p.avgCost # p.oldCost
  /\ IsPos(result.directMaterialCost)

----------------------------------------------------------------------------
(* Properties of the cost aggregation.                                     *)

\* x * 2^k, which is exact.
Scale(x, k) == IF x.m = 0 THEN Zero ELSE [m |-> x.m, e |-> x.e + k]

\* |x - y| <= bound.  The rounded difference is at most a representable
\* bound exactly when the true difference is.
Within(x, y, bound) == FLe(FAbs(FSub(x, y)), bound)

\* Four units of roundoff relative to x.
Tolerance(x) == Scale(FAbs(x), 2 - Precision)

\* C5: totalCost = directMaterialCost + labor + energy + freight + warranty
\* with labor = directMaterialCost * laborPct, energy = directMaterialCost *
\* energyPct, warranty = listPrice * warrantyPct and freight the flat input,
\* whatever the materials and forecast units are.
C5_TotalCost ==
  Returned =>
    LET r == result
    IN  /\ r.totalCost =
             FAdd(FAdd(FAdd(FAdd(r.directMaterialCost, r.labor), r.energy), r.freight), r.warranty)
        /\ r.labor = FMul(r.directMaterialCost, args.laborPct)
        /\ r.energy = FMul(r.directMaterialCost, args.energyPct)
        /\ r.warranty = FMul(r.listPrice, args.warrantyPct)
        /\ r.freight = args.freight

\* Every component of the total is nonzero.
C5_Witness ==
  /\ Returned
  /\ IsPos(result.directMaterialCost)
  /\ IsPos(result.labor)
  /\ IsPos(result.energy)
  /\ result.freight = FromInt(60)
  /\ IsPos(result.warranty)
  /\ FGt(result.totalCost, FAdd(result.directMaterialCost, result.freight))

\* C6 as stated: marginInr + totalCost = listPrice for all inputs.
C6_MarginIdentityExact ==
  Returned => FAdd(result.marginInr, result.totalCost) = result.listPrice

\* C6 amended: marginInr is the rounded difference listPrice - totalCost,
\* and marginInr + totalCost differs from listPrice by at most four units
\* of roundoff of the larger of |listPrice| and |totalCost|.
C6_MarginIdentityRounded ==
  Returned =>
    /\ result.marginInr = FSub(result.listPrice, result.totalCost)
    /\ Within(FAdd(result.marginInr, result.totalCost), result.listPrice,
              Tolerance(FMax(FAbs(result.listPrice), FAbs(result.totalCost))))

\* The identity is off by a rounding error.
C6_Witness ==
  /\ Returned
  /\ result.totalCost # Zero
  /\ result.listPrice # Zero
  /\ FAdd(result.marginInr, result.totalCost) # result.listPrice

\* C7: marginPct = marginInr / listPrice when listPrice > 0 and 0 when
\* listPrice <= 0; listPrice 6500 and totalCost 5000 give marginInr 1500
\* and marginPct 1500/6500.
C7_MarginPct ==
  Returned =>
    /\ IsPos(result.listPrice) =>
         result.marginPct = FDiv(result.marginInr, result.listPrice)
    /\ ~IsPos(result.listPrice) => result.marginPct = Zero
    /\ (result.listPrice = FromInt(6500) /\ result.totalCost = FromInt(5000)) =>
         /\ result.marginInr = FromInt(1500)
         /\ result.marginPct = Dec(1500, 6500)

\* The worked example.
C7_Witness ==
  /\ Returned
  /\ result.listPrice = FromInt(6500)
  /\ result.totalCost = FromInt(5000)
  /\ result.marginPct = Dec(1500, 6500)

\* C8: recommendedSP = totalCost / (1 - targetMargin) when targetMargin < 1
\* and totalCost when targetMargin >= 1; the divisor is always positive.
C8_RecommendedSP ==
  Returned =>
    /\ FLt(result.targetMargin, One) =>
         /\ IsPos(FSub(One, result.targetMargin))
         /\ result.recommendedSP = FDiv(result.totalCost, FSub(One, result.targetMargin))
    /\ FGe(result.targetMargin, One) => result.recommendedSP = result.totalCost

\* A target margin above 100% with a nonzero cost.
C8_Witness ==
  /\ Returned
  /\ FGt(result.targetMargin, One)
  /\ IsPos(result.totalCost)
  /\ result.recommendedSP = result.totalCost

\* C9 as stated: recommendedSP * (1 - targetMargin) = totalCost whenever
\* targetMargin < 1.
C9_InversionExact ==
  (Returned /\ FLt(result.targetMargin, One)) =>
    FMul(result.recommendedSP, FSub(One, result.targetMargin)) = result.totalCost

\* C9 amended: for targetMargin < 1, recommendedSP * (1 - targetMargin)
\* differs from totalCost by at most four units of roundoff of |totalCost|.
C9_InversionRounded ==
  (Returned /\ FLt(result.targetMargin, One)) =>
    Within(FMul(result.recommendedSP, FSub(One, result.targetMargin)),
           result.totalCost, Tolerance(result.totalCost))

\* The round trip is off by a rounding error.
C9_Witness ==
  /\ Returned
  /\ FLt(result.targetMargin, One)
  /\ result.totalCost # Zero
  /\ FMul(result.recommendedSP, FSub(One, result.targetMargin)) # result.totalCost

\* C10: a call with a product id that is not in PRODUCTS ends in an error,
\* whatever the other inputs are, both overrides supplied or not.
C10_UnknownProductFails ==
  (status # "pending" /\ args.sku \notin {"P100", "P200", "P300"}) => status = "error"

----------------------------------------------------------------------------
(* Numeric boundaries of a known product.                                  *)

\* C11: for a known product the call never fails on a numeric boundary
\* (no stock and no demand, target margin >= 1, list price 0, alone or
\* together); it returns a complete result with the fallback values:
\* avgCost = newPrice, recommendedSP = totalCost, marginPct = 0.
C11_BoundaryFallbacks ==
  (status # "pending" /\ productKnown(args.sku)) =>
    /\ status = "ok"
    /\ DOMAIN result = DOMAIN NoResult
    /\ Len(result.procurementPlan) = Len(args.materials)
    /\ \A i \in Rows :
         ~IsPos(result.procurementPlan[i].endQty) =>
           result.procurementPlan[i].avgCost = args.materials[i].newPrice
    /\ ~IsPos(result.listPrice) => result.marginPct = Zero
    /\ FGe(result.targetMargin, One) => result.recommendedSP = result.totalCost

\* The three boundaries in one call of a known product.
C11_Witness ==
  /\ Returned
  /\ productKnown(args.sku)
  /\ \E i \in Rows :
       /\ args.materials[i].onHand = Zero
       /\ result.procurementPlan[i].grossReq = Zero
       /\ result.procurementPlan[i].endQty = Zero
       /\ result.procurementPlan[i].avgCost = args.materials[i].newPrice
  /\ result.listPrice = Zero
  /\ result.marginPct = Zero
  /\ FGt(result.targetMargin, One)
  /\ result.recommendedSP = result.totalCost

----------------------------------------------------------------------------
(* The component: its state after mount, one action per event handler.    *)
(* React renders again after each event, so an action includes the        *)
(* render: useMemo recomputes the result and the handlers are re-created   *)
(* over the new state.                                                     *)

MaxEvents == 3

\* The material rows that are edited.
EditRows == {1}

\* What is typed into a number input: a number, or nothing.
Typed(ns) == {Some(FromInt(n)) : n \in ns} \cup {Undefined}

\* Number(e.target.value) || 0
numberOrZero(t) == IF t.present THEN t.v ELSE Zero

\* Number(e.target.value) / 100 and onChange(v / 100)
percentOf(t) == FDiv(numberOrZero(t), FromInt(100))

SkuItems == DOMAIN PRODUCTS

ForecastInputs == {Some(FromInt(20000))}

ListPriceInputs == Typed({7000})

TargetMarginInputs == {Some(FromInt(30)), Some(FromInt(100))}

PercentInputs == {Some(FromInt(5))}

FreightInputs == {Undefined}

MaterialFields == {"newPrice", "onHand", "bomQty"}

MaterialInputs == {Some(FromInt(-5))}

InitialArgs ==
  Args("P100", FromInt(10000), MATERIALS,
       Some(PRODUCTS["P100"].listPrice), Some(PRODUCTS["P100"].targetMargin),
       Dec(8, 100), Dec(4, 100), FromInt(60), Dec(1, 100))

\* Variant: freight is missing from the dependency list.
depsChanged_noFreight(prev, next, replaced) ==
  \/ replaced
  \/ prev.sku # next.sku
  \/ prev.forecastUnits # next.forecastUnits
  \/ prev.listPriceOverride # next.listPriceOverride
  \/ prev.targetMarginOverride # next.targetMarginOverride
  \/ prev.laborPct # next.laborPct
  \/ prev.energyPct # next.energyPct
  \/ prev.warrantyPct # next.warrantyPct

\* The dependency list of useMemo; the materials array is compared by
\* identity, and setMaterials always stores a new array.
depsChanged(prev, next, replaced) ==
  \/ replaced
  \/ prev.sku # next.sku
  \/ prev.forecastUnits # next.forecastUnits
  \/ prev.listPriceOverride # next.listPriceOverride
  \/ prev.targetMarginOverride # next.targetMarginOverride
  \/ prev.laborPct # next.laborPct
  \/ prev.energyPct # next.energyPct
  \/ prev.freight # next.freight
  \/ prev.warrantyPct # next.warrantyPct

useMemo(prev, memo, next, replaced) ==
  IF depsChanged(prev, next, replaced)
  THEN computeCostsWithInventory(next).result
  ELSE memo

\* Variant: the field is assigned in the row object itself, which is the
\* catalog's row as long as the row was never copied.
updateMaterial_inPlace(mem, index, field, value) ==
  [materials |-> [mem.materials EXCEPT ![index][field] = value],
   catalog |-> IF index \in mem.aliased
               THEN [mem.catalog EXCEPT !.materials[index][field] = value]
               ELSE mem.catalog,
   aliased |-> mem.aliased]

\* prev.map((m, i) => i === index ? { ...m, [field]: value } : m): the
\* edited row is a new object, the other rows and the catalog are untouched.
updateMaterial(mem, index, field, value) ==
  [materials |-> [i \in DOMAIN mem.materials |->
                    IF i = index THEN [mem.materials[i] EXCEPT ![field] = value]
                    ELSE mem.materials[i]],
   catalog |-> mem.catalog,
   aliased |-> mem.aliased \ {index}]

scenarioName(length) == "Scenario " \o ToString(length + 1)

\* Variant: the stored results are refreshed with the live result.
addScenario_refresh(prev, length, res) ==
  Append([i \in DOMAIN prev |-> [prev[i] EXCEPT !.result = res]],
         [name |-> scenarioName(length), result |-> res])

\* Variant: the new entry is put first.
addScenario_prepend(prev, length, res) ==
  <<[name |-> scenarioName(length), result |-> res]>> \o prev

\* setScenarios(prev => [...prev, { name, result: { ...result } }]) with the
\* name taken from the scenarios.length the handler closed over.
addScenario(prev, length, res) ==
  Append(prev, [name |-> scenarioName(length), result |-> res])

\* Variant: the latest scenario survives a clear.
clearScenarios_keepLast(prev) == IF prev = <<>> THEN <<>> ELSE <<prev[Len(prev)]>>

clearScenarios(prev) == <<>>

InitUI ==
  /\ args = InitialArgs
  /\ status = "ok"
  /\ result = computeCostsWithInventory(InitialArgs).result
  /\ scenarios = <<>>
  /\ renderedLength = 0
  /\ catalog = Catalog
  /\ aliased = DOMAIN MATERIALS
  /\ events = 0
  /\ cleared = FALSE

\* The render after an input event that leaves the inputs as `next`.
RenderInputs(next, replaced) ==
  /\ args' = next
  /\ status' = IF throwsTypeError(next) THEN "error" ELSE "ok"
  /\ result' = useMemo(args, result, next, replaced)
  /\ renderedLength' = Len(scenarios)
  /\ events' = events + 1
  /\ UNCHANGED <<scenarios, cleared>>

\* The render after a change of the scenario store.
RenderScenarios(next) ==
  /\ scenarios' = next
  /\ renderedLength' = Len(next)
  /\ result' = useMemo(args, result, args, FALSE)
  /\ UNCHANGED <<args, status, catalog, aliased>>

\* Variant: only the sku is set; list price and target margin stay.
SelectSku_skuOnly ==
  /\ events < MaxEvents
  /\ \E v \in SkuItems : RenderInputs([args EXCEPT !.sku = v], FALSE)
  /\ UNCHANGED <<catalog, aliased>>

SelectSku ==
  /\ events < MaxEvents
  /\ \E v \in SkuItems :
       RenderInputs([args EXCEPT !.sku = v,
                                 !.targetMarginOverride = Some(catalog.products[v].targetMargin),
                                 !.listPriceOverride = Some(catalog.products[v].listPrice)],
                    FALSE)
  /\ UNCHANGED <<catalog, aliased>>

SetForecastUnits ==
  /\ events < MaxEvents
  /\ \E t \in ForecastInputs :
       RenderInputs([args EXCEPT !.forecastUnits = numberOrZero(t)], FALSE)
  /\ UNCHANGED <<catalog, aliased>>

SetListPrice ==
  /\ events < MaxEvents
  /\ \E t \in ListPriceInputs :
       RenderInputs([args EXCEPT !.listPriceOverride = Some(numberOrZero(t))], FALSE)
  /\ UNCHANGED <<catalog, aliased>>

SetTargetMargin ==
  /\ events < MaxEvents
  /\ \E t \in TargetMarginInputs :
       RenderInputs([args EXCEPT !.targetMarginOverride = Some(percentOf(t))], FALSE)
  /\ UNCHANGED <<catalog, aliased>>

SetLaborPct ==
  /\ events < MaxEvents
  /\ \E t \in PercentInputs :
       RenderInputs([args EXCEPT !.laborPct = percentOf(t)], FALSE)
  /\ UNCHANGED <<catalog, aliased>>

SetEnergyPct ==
  /\ events < MaxEvents
  /\ \E t \in PercentInputs :
       RenderInputs([args EXCEPT !.energyPct = percentOf(t)], FALSE)
  /\ UNCHANGED <<catalog, aliased>>

SetFreight ==
  /\ events < MaxEvents
  /\ \E t \in FreightInputs :
       RenderInputs([args EXCEPT !.freight = numberOrZero(t)], FALSE)
  /\ UNCHANGED <<catalog, aliased>>

SetWarrantyPct ==
  /\ events < MaxEvents
  /\ \E t \in PercentInputs :
       RenderInputs([args EXCEPT !.warrantyPct = percentOf(t)], FALSE)
  /\ UNCHANGED <<catalog, aliased>>

\* The memory after one edit of a material row.
StoreMaterials(mem) ==
  /\ RenderInputs([args EXCEPT !.materials = mem.materials], TRUE)
  /\ catalog' = mem.catalog
  /\ aliased' = mem.aliased

UpdateMaterial ==
  /\ events < MaxEvents
  /\ \E index \in EditRows, field \in MaterialFields, t \in MaterialInputs :
       StoreMaterials(updateMaterial([materials |-> args.materials, catalog |-> catalog,
                                      aliased |-> aliased],
                                     index, field, numberOrZero(t)))

AddScenario ==
  /\ events < MaxEvents
  /\ RenderScenarios(addScenario(scenarios, renderedLength, result))
  /\ events' = events + 1
  /\ UNCHANGED cleared

ClearScenarios ==
  /\ RenderScenarios(clearScenarios(scenarios))
  /\ cleared' = (cleared \/ scenarios # <<>>)
  /\ UNCHANGED events

NextUI ==
  \/ SelectSku
  \/ SetForecastUnits
  \/ SetListPrice
  \/ SetTargetMargin
  \/ SetLaborPct
  \/ SetEnergyPct
  \/ SetFreight
  \/ SetWarrantyPct
  \/ UpdateMaterial
  \/ AddScenario
  \/ ClearScenarios

SpecUI == InitUI /\ [][NextUI]_vars

\* A second call of addScenario in the same batch of updates: React has
\* not rendered since the call before it, so the handler still holds the
\* closure of the last render; the render comes with a later event.
AddScenarioInBatch ==
  /\ events < MaxEvents
  /\ scenarios' = addScenario(scenarios, renderedLength, result)
  /\ events' = events + 1
  /\ UNCHANGED <<args, status, result, renderedLength, catalog, aliased, cleared>>

NextBatch == NextUI \/ AddScenarioInBatch

SpecBatch == InitUI /\ [][NextBatch]_vars

----------------------------------------------------------------------------
(* Properties of the scenario store.                                       *)

\* C12: every addScenario appends an entry named "Scenario " followed by
\* the length of the store just before the append plus one, so the i-th
\* stored scenario is always named "Scenario i", also when two adds are
\* triggered from the same rendered state.
C12_ScenarioNames ==
  \A i \in DOMAIN scenarios : scenarios[i].name = "Scenario " \o ToString(i)

\* C13: the result values of a stored scenario never change under later
\* input edits, material edits, SKU changes or further adds; the entry
\* stays as captured until clearScenarios removes it.
C13_SnapshotsKept ==
  [][ClearScenarios \/
      \A i \in DOMAIN scenarios :
        /\ i \in DOMAIN scenarios'
        /\ scenarios'[i].result = scenarios[i].result]_vars

\* A scenario captured at mount is still held as captured after the inputs
\* were edited and the live result has moved on.
C13_Witness ==
  /\ Len(scenarios) >= 1
  /\ scenarios[1].result = computeCostsWithInventory(InitialArgs).result
  /\ args # InitialArgs
  /\ result.totalCost # scenarios[1].result.totalCost

\* C14: addScenario makes the store one longer, with the new entry last
\* and the earlier entries unchanged in their order; no event other than
\* clearScenarios removes or reorders entries.
C14_AppendOnly ==
  [][/\ AddScenario =>
          /\ Len(scenarios') = Len(scenarios) + 1
          /\ SubSeq(scenarios', 1, Len(scenarios)) = scenarios
          /\ scenarios'[Len(scenarios')].result = result
     /\ (~AddScenario /\ ~ClearScenarios) => scenarios' = scenarios]_vars

\* Two scenarios captured around an edit, the later one last.
C14_Witness ==
  /\ Len(scenarios) = 2
  /\ scenarios[1].result = computeCostsWithInventory(InitialArgs).result
  /\ scenarios[2].result # scenarios[1].result
  /\ scenarios[2].result = result

\* C15: clearScenarios leaves the store empty whatever it held, the first
\* addScenario after it is named "Scenario 1", and clearing changes nothing
\* but the store.
C15_ClearThenRestart ==
  [][/\ ClearScenarios =>
          /\ scenarios' = <<>>
          /\ UNCHANGED <<args, status, result, catalog, aliased>>
     /\ (AddScenario /\ scenarios = <<>>) =>
          /\ Len(scenarios') = 1
          /\ scenarios'[1].name = "Scenario 1"]_vars

\* A store that held entries was cleared and holds one new scenario.
C15_Witness ==
  /\ cleared
  /\ Len(scenarios) = 1
  /\ scenarios[1].name = "Scenario 1"

----------------------------------------------------------------------------
(* Properties of the catalog and of the inputs.                            *)

\* C16: no event changes MATERIALS or PRODUCTS: edits and overrides live in
\* the component's own state and the catalog keeps its initial values; the
\* computation leaves the materials it is given as they are, so they
\* change only by an edit of a material row.
C16_CatalogUntouched ==
  [][/\ catalog = Catalog
     /\ catalog' = Catalog
     /\ ~UpdateMaterial => args'.materials = args.materials]_vars

\* A material row and the list price were overridden; the catalog still
\* holds the original row and price.
C16_Witness ==
  /\ args.materials[1] # MATERIALS[1]
  /\ catalog.materials[1] = MATERIALS[1]
  /\ args.listPriceOverride.v # catalog.products[args.sku].listPrice
  /\ catalog.products = PRODUCTS

\* C17: in every state reached through the material editor every material
\* has onHand >= 0, newPrice >= 0 and oldCost >= 0.
C17_NonNegativeMaterials ==
  \A i \in DOMAIN args.materials :
    /\ ~IsNeg(args.materials[i].onHand)
    /\ ~IsNeg(args.materials[i].newPrice)
    /\ ~IsNeg(args.materials[i].oldCost)

\* C18: the result on screen is always computeCostsWithInventory of the
\* current sku, forecast, materials, list price, target margin and overhead
\* parameters, after any sequence of changes; addScenario captures that
\* result, never a stale one.
C18_ResultIsCurrent ==
  /\ [](result = computeCostsWithInventory(args).result)
  /\ [][AddScenario => scenarios'[Len(scenarios')].result = result]_vars

\* A scenario captured after the inputs were changed holds the result of
\* the changed inputs.
C18_Witness ==
  /\ args # InitialArgs
  /\ args.materials # MATERIALS
  /\ Len(scenarios) >= 1
  /\ scenarios[Len(scenarios)].result = result
  /\ result # computeCostsWithInventory(InitialArgs).result

----------------------------------------------------------------------------
(* The substitution engine: a capped copper-to-aluminium substitution on   *)
(* a set of BOM lines.  One call on a drawn input; args holds the lines,   *)
(* the rule and the requested fraction, result the adjusted lines.         *)

FMin(a, b) == IF FLt(b, a) THEN b ELSE a

BomLine(materialId, quantity, unitOfMeasure) ==
  [materialId |-> materialId, quantity |-> quantity, unitOfMeasure |-> unitOfMeasure]

Rule(base, substitute, ratio, cap) ==
  [baseMaterialId |-> base, substituteMaterialId |-> substitute,
   substitutionRatio |-> ratio, capFraction |-> cap]

uomOf(materialId) == "KG"

hasLine(lines, materialId) == \E i \in DOMAIN lines : lines[i].materialId = materialId

lineOf(lines, materialId) ==
  CHOOSE i \in DOMAIN lines :
    /\ lines[i].materialId = materialId
    /\ \A j \in DOMAIN lines : lines[j].materialId = materialId => i <= j

\* Variant: the requested fraction is used as it is.
effectiveFraction_noCap(rule, p) == p

effectiveFraction(rule, p) == FMin(p, rule.capFraction)

reducedQuantity(quantity, eff) == FMul(quantity, FSub(One, eff))

substituteQuantity(baseOriginalQuantity, eff, ratio) ==
  FMul(FMul(baseOriginalQuantity, eff), ratio)

\* The substitute quantity is added to the substitute's line, or a new
\* line is appended for it.
withSubstitute(lines, rule, quantity) ==
  IF hasLine(lines, rule.substituteMaterialId)
  THEN [lines EXCEPT ![lineOf(lines, rule.substituteMaterialId)].quantity = FAdd(@, quantity)]
  ELSE Append(lines, BomLine(rule.substituteMaterialId, quantity,
                             uomOf(rule.substituteMaterialId)))

substituted(lines, rule, eff, base) ==
  withSubstitute([lines EXCEPT ![base].quantity = reducedQuantity(@, eff)], rule,
                 substituteQuantity(lines[base].quantity, eff, rule.substitutionRatio))

withFraction(lines, rule, eff) ==
  IF FLe(eff, Zero) \/ ~hasLine(lines, rule.baseMaterialId) THEN lines
  ELSE substituted(lines, rule, eff, lineOf(lines, rule.baseMaterialId))

applySubstitution(lines, rule, p) == withFraction(lines, rule, effectiveFraction(rule, p))

CopperLine == BomLine("M_COPPER", Dec(25, 10), "KG")

AlumLine == BomLine("M_ALUM", One, "KG")

SteelLine == BomLine("M_STEEL_LAM", FromInt(3), "KG")

BomLineSets ==
  {<<>>, <<CopperLine>>, <<CopperLine, SteelLine>>, <<SteelLine, CopperLine, AlumLine>>,
   <<AlumLine, CopperLine>>, <<SteelLine, AlumLine>>,
   <<BomLine("M_COPPER", Zero, "KG")>>, <<BomLine("M_COPPER", Dec(1, 10), "KG"), SteelLine>>}

Rules ==
  {Rule("M_COPPER", "M_ALUM", ratio, cap) :
     ratio \in {Dec(16, 10), One}, cap \in {Dec(4, 10), Dec(1, 2), Zero}}

Fractions == {Dec(-1, 10), Zero, Dec(2, 10), Dec(4, 10), Dec(6, 10), One, Dec(15, 10)}

SubstitutionCalls ==
  {[lines |-> lines, rule |-> rule, p |-> p] :
     lines \in BomLineSets, rule \in Rules, p \in Fractions}

InitSub ==
  /\ args \in SubstitutionCalls
  /\ status = "pending"
  /\ result = <<>>
  /\ scenarios = <<>>
  /\ renderedLength = 0
  /\ catalog = Catalog
  /\ aliased = {}
  /\ events = 0
  /\ cleared = FALSE

Substitute ==
  /\ status = "pending"
  /\ status' = "ok"
  /\ result' = applySubstitution(args.lines, args.rule, args.p)
  /\ UNCHANGED args
  /\ UNCHANGED uiVars

NextSub == Substitute

SpecSub == InitSub /\ [][NextSub]_vars

quantityOf(lines, materialId) ==
  IF hasLine(lines, materialId) THEN lines[lineOf(lines, materialId)].quantity ELSE Zero

\* C19: the requested fraction is clamped to capFraction: for every
\* p > capFraction the adjusted lines are those obtained at p = capFraction,
\* the base line is reduced by the factor (1 - capFraction) and the
\* substitute line grows by baseQuantity * capFraction * ratio; with cap 0.4,
\* ratio 1.6, copper 2.5 and p = 0.6 copper becomes 1.5 and aluminium
\* gains 1.6.
C19_ClampedAtCap ==
  (status = "ok" /\ FGt(args.p, args.rule.capFraction)) =>
    LET cap == args.rule.capFraction
        ratio == args.rule.substitutionRatio
        base == quantityOf(args.lines, "M_COPPER")
        before == quantityOf(args.lines, "M_ALUM")
    IN  /\ result = applySubstitution(args.lines, args.rule, cap)
        /\ (IsPos(cap) /\ hasLine(args.lines, "M_COPPER")) =>
             /\ quantityOf(result, "M_COPPER") = FMul(base, FSub(One, cap))
             /\ quantityOf(result, "M_ALUM") = FAdd(before, FMul(FMul(base, cap), ratio))
             /\ hasLine(result, "M_ALUM")
             /\ Len(result) = Len(args.lines) + (IF hasLine(args.lines, "M_ALUM") THEN 0 ELSE 1)
        /\ (cap = Dec(4, 10) /\ ratio = Dec(16, 10) /\ base = Dec(25, 10) /\ args.p = Dec(6, 10)) =>
             /\ quantityOf(result, "M_COPPER") = Dec(15, 10)
             /\ quantityOf(result, "M_ALUM") = FAdd(before, Dec(16, 10))

\* The example: 60 % requested against a cap of 40 % on 2.5 of copper with
\* no aluminium line yet.
C19_Witness ==
  /\ status = "ok"
  /\ args.p = Dec(6, 10)
  /\ args.rule.capFraction = Dec(4, 10)
  /\ args.rule.substitutionRatio = Dec(16, 10)
  /\ args.lines = <<CopperLine>>
  /\ result = <<BomLine("M_COPPER", Dec(15, 10), "KG"), BomLine("M_ALUM", Dec(16, 10), "KG")>>

----------------------------------------------------------------------------
(* The moving average against the two prices.                              *)

\* C20: for a material with onHand >= 0, procureQty >= 0, non-negative
\* prices and endQty > 0 the computed avgCost lies between oldCost and
\* newPrice inclusive: min(oldCost, newPrice) * endQty <=
\* onHand * oldCost + procureQty * newPrice <= max(oldCost, newPrice) * endQty.
C20_AvgCostBetweenPrices ==
  Returned =>
    \A i \in Rows :
      LET m == args.materials[i]
          p == result.procurementPlan[i]
          lo == FMin(m.oldCost, m.newPrice)
          hi == FMax(m.oldCost, m.newPrice)
          value == FAdd(FMul(m.onHand, m.oldCost), FMul(p.procureQty, m.newPrice))
      IN  (/\ ~IsNeg(m.onHand) /\ ~IsNeg(p.procureQty)
           /\ ~IsNeg(m.oldCost) /\ ~IsNeg(m.newPrice)
           /\ IsPos(p.endQty)) =>
            /\ FLe(lo, p.avgCost)
            /\ FLe(p.avgCost, hi)
            /\ FLe(FMul(lo, p.endQty), value)
            /\ FLe(value, FMul(hi, p.endQty))

\* Eight units of roundoff of x: the products, the sum, endQty and the
\* quotient each round once.
AvgTolerance(x) == Scale(FAbs(x), 3 - Precision)

\* C20 (as amended): under the same conditions avgCost lies between the two
\* prices up to rounding: it is not below min(oldCost, newPrice) and not
\* above max(oldCost, newPrice) by more than eight units of roundoff.
C20_AvgCostBetweenRounded ==
  Returned =>
    \A i \in Rows :
      LET m == args.materials[i]
          p == result.procurementPlan[i]
          lo == FMin(m.oldCost, m.newPrice)
          hi == FMax(m.oldCost, m.newPrice)
      IN  (/\ ~IsNeg(m.onHand) /\ ~IsNeg(p.procureQty)
           /\ ~IsNeg(m.oldCost) /\ ~IsNeg(m.newPrice)
           /\ IsPos(p.endQty)) =>
            /\ FLe(FSub(lo, p.avgCost), AvgTolerance(lo))
            /\ FLe(FSub(p.avgCost, hi), AvgTolerance(hi))

\* Stock and procurement at different prices blend to a cost strictly
\* between them.
C20_Witness ==
  /\ Returned
  /\ \E i \in Rows :
       /\ IsPos(args.materials[i].onHand)
       /\ IsPos(result.procurementPlan[i].procureQty)
       /\ FLt(args.materials[i].oldCost, result.procurementPlan[i].avgCost)
       /\ FLt(result.procurementPlan[i].avgCost, args.materials[i].newPrice)

----------------------------------------------------------------------------
(* Stock that covers the demand.                                           *)

\* The call with the new price of row i replaced.
withNewPrice(a, i, price) ==
  computeCostsWithInventory([a EXCEPT !.materials[i].newPrice = price]).result

\* Changing the new price of row i changes neither cost.
NewPriceIgnored(i) ==
  \A price \in NewPrices :
    /\ withNewPrice(args, i, price).directMaterialCost = result.directMaterialCost
    /\ withNewPrice(args, i, price).totalCost = result.totalCost

Covered(i) ==
  /\ FGe(args.materials[i].onHand, result.procurementPlan[i].grossReq)
  /\ IsPos(args.materials[i].onHand)

\* C21: when the stock covers the demand (onHand >= bomQty * forecastUnits
\* and onHand > 0) the entry has procureQty = 0, spend = 0, endQty = onHand
\* and avgCost = oldCost, and the material's newPrice has no effect on
\* directMaterialCost or totalCost; with onHand >= 0 in every case
\* endQty = max(onHand, grossReq) >= grossReq.
C21_CoveredDemandExact ==
  Returned =>
    \A i \in Rows :
      LET m == args.materials[i]
          p == result.procurementPlan[i]
      IN  /\ Covered(i) =>
               /\ p.procureQty = Zero
               /\ p.spend = Zero
               /\ p.endQty = m.onHand
               /\ p.avgCost = m.oldCost
               /\ NewPriceIgnored(i)
          /\ ~IsNeg(m.onHand) =>
               /\ p.endQty = FMax(m.onHand, p.grossReq)
               /\ FGe(p.endQty, p.grossReq)

\* C21 (as amended): with the demand covered procureQty = 0, spend = 0 and
\* endQty = onHand hold exactly and newPrice has no effect on the costs;
\* avgCost equals oldCost, and with onHand >= 0 endQty equals
\* max(onHand, grossReq), up to four units of roundoff.
C21_CoveredDemandRounded ==
  Returned =>
    \A i \in Rows :
      LET m == args.materials[i]
          p == result.procurementPlan[i]
      IN  /\ Covered(i) =>
               /\ p.procureQty = Zero
               /\ p.spend = Zero
               /\ p.endQty = m.onHand
               /\ Within(p.avgCost, m.oldCost, Tolerance(m.oldCost))
               /\ NewPriceIgnored(i)
          /\ ~IsNeg(m.onHand) =>
               Within(p.endQty, FMax(m.onHand, p.grossReq),
                      Tolerance(FMax(m.onHand, p.grossReq)))

\* A positive demand met from stock, at a new price that differs from the
\* old cost.
C21_Witness ==
  /\ Returned
  /\ \E i \in Rows :
       /\ Covered(i)
       /\ IsPos(result.procurementPlan[i].grossReq)
       /\ args.materials[i].newPrice # args.materials[i].oldCost
       /\ result.procurementPlan[i].procureQty = Zero
       /\ result.procurementPlan[i].avgCost = args.materials[i].oldCost
       /\ IsPos(result.directMaterialCost)

----------------------------------------------------------------------------
(* The recommendation of the analysis panel.                               *)

\* result.listPrice < result.recommendedSP ? "Consider increasing ..." :
\* "Current price meets ..."
analysisMessage(res) ==
  IF FLt(res.listPrice, res.recommendedSP)
  THEN "Consider increasing the selling price to achieve target margin."
  ELSE "Current price meets target margin requirements."

\* C22: whenever the panel says that the current price meets the target
\* margin requirements and listPrice > 0, marginPct is at least
\* targetMargin; whenever it advises to increase the price, marginPct is
\* below targetMargin; for every target margin that can be typed.
C22_MessageMatchesMargin ==
  /\ (/\ analysisMessage(result) = "Current price meets target margin requirements."
      /\ IsPos(result.listPrice)) =>
       FGe(result.marginPct, result.targetMargin)
  /\ analysisMessage(result) = "Consider increasing the selling price to achieve target margin." =>
       FLt(result.marginPct, result.targetMargin)

----------------------------------------------------------------------------
(* The SKU select.                                                         *)

\* C23: selecting a SKU sets the live listPrice and targetMargin to the
\* product's catalog values, whatever override was typed before, and leaves
\* the materials with their edits, the forecast units, the overhead
\* parameters and the stored scenarios as they are; so directMaterialCost,
\* labor and energy are the same for every SKU.
C23_SelectSkuFrame ==
  [][SelectSku =>
       /\ args'.sku \in DOMAIN PRODUCTS
       /\ args'.listPriceOverride = Some(PRODUCTS[args'.sku].listPrice)
       /\ args'.targetMarginOverride = Some(PRODUCTS[args'.sku].targetMargin)
       /\ result'.listPrice = PRODUCTS[args'.sku].listPrice
       /\ result'.targetMargin = PRODUCTS[args'.sku].targetMargin
       /\ args'.materials = args.materials
       /\ args'.forecastUnits = args.forecastUnits
       /\ args'.laborPct = args.laborPct
       /\ args'.energyPct = args.energyPct
       /\ args'.freight = args.freight
       /\ args'.warrantyPct = args.warrantyPct
       /\ scenarios' = scenarios
       /\ result'.procurementPlan = result.procurementPlan
       /\ result'.directMaterialCost = result.directMaterialCost
       /\ result'.labor = result.labor
       /\ result'.energy = result.energy]_vars

\* A typed list price of 7000 was captured in a scenario and then replaced
\* by the catalog price of the product selected afterwards.
C23_Witness ==
  /\ args.sku = "P300"
  /\ result.listPrice = PRODUCTS["P300"].listPrice
  /\ result.targetMargin = PRODUCTS["P300"].targetMargin
  /\ Len(scenarios) = 1
  /\ scenarios[1].result.listPrice = FromInt(7000)
  /\ scenarios[1].result.directMaterialCost = result.directMaterialCost

=============================================================================
